---- MODULE Spec2Model ----
(***************************************************************************)
(* ForerunnerDB BinaryTree index (lib/BinaryTree.js): a binary search tree *)
(* of documents ordered by a compound comparator, with insert, remove,     *)
(* clear, lookup, inOrder, startsWith, findRange and match.                *)
(*                                                                         *)
(* Tree nodes are BinaryTree objects; they are modelled as a heap of node  *)
(* records addressed by node ids, because remove() copies child references *)
(* between objects.  Node 1 is the tree object the caller holds.  The      *)
(* _store bucket is filled by push() only, which no call modelled here     *)
(* makes, so it stays empty and is left out of the node record.            *)
(*                                                                         *)
(* The second part is the file persistence layer (lib/NodePersist.js):     *)
(* the encode/decode step lists, save, load and drop of data files, and    *)
(* the automatic load/save hooked to the db's 'create' and 'change'        *)
(* events.  Each call is one step, taken up to its callback; the module is *)
(* in file mode, as init leaves it.                                        *)
(***************************************************************************)
EXTENDS Integers, Sequences, FiniteSets, TLC

\* ------------------------------------------------------------------ bounds
\* Number of mutating calls (insert, remove, clear) made on the tree.
MaxCalls == 5

\* ------------------------------------------------------------------ values
\* A JavaScript value held in a document field: undefined, a number or a
\* string (a sequence of letter codes).
Undef == [kind |-> "undef", n |-> 0, s |-> <<>>]
Num(i) == [kind |-> "num", n |-> i, s |-> <<>>]
Str(t) == [kind |-> "str", n |-> 0, s |-> t]

\* Letters are written as their rank in collation order: 1 is "a", 2 is "b".
Letters == {1, 2}

\* ------------------------------------------------------------------ documents
\* The documents the callers insert, remove and query with.  A document is
\* referenced by its position in this table; 0 stands for "no document"
\* (the _data property is absent).
DocTable ==
  << [pk |-> Num(1), a |-> Num(1), b |-> Num(2), s |-> Str(<<1, 2>>)],
     [pk |-> Num(2), a |-> Num(1), b |-> Num(1), s |-> Str(<<2>>)],
     [pk |-> Num(3), a |-> Num(2), b |-> Undef, s |-> Undef],
     [pk |-> Num(4), a |-> Num(1), b |-> Num(2), s |-> Str(<<1, 2>>)],
     [pk |-> Num(5), a |-> Num(2), b |-> Num(1), s |-> Str(<<1>>)] >>

Docs == 1..Len(DocTable)
NoData == 0

\* Index specifications a tree may be constructed with: the parsed key list
\* (path, value) with value 1 ascending and -1 descending.
IndexSpecs ==
  { << [path |-> "a", value |-> 1], [path |-> "b", value |-> -1] >>,
    << [path |-> "s", value |-> 1] >>,
    << [path |-> "s", value |-> -1] >>,
    << [path |-> "a", value |-> 1] >>,
    << [path |-> "a", value |-> 1], [path |-> "s", value |-> 1] >> }

\* The primary key field the root tree is constructed with; NoKey is an
\* absent (undefined) primaryKey.
PrimaryKeyField == "pk"
NoKey == ""

\* ------------------------------------------------------------------ resolver
\* Path.get(obj, path): the value at a (flat) path, undefined when the object
\* or the field is absent.
Get(d, path) == IF d = NoData THEN Undef ELSE DocTable[d][path]

\* ------------------------------------------------------------------ sorting
RECURSIVE localeCompare(_, _)
\* String.prototype.localeCompare on strings of letters: lexicographic.
localeCompare(x, y) ==
  IF x = <<>> /\ y = <<>> THEN 0
  ELSE IF x = <<>> THEN -1
  ELSE IF y = <<>> THEN 1
  ELSE IF Head(x) < Head(y) THEN -1
  ELSE IF Head(x) > Head(y) THEN 1
  ELSE localeCompare(Tail(x), Tail(y))

\* Mixin.Sorting sortAsc on two defined values.
sortAsc(x, y) ==
  IF x.kind = "str" /\ y.kind = "str" THEN localeCompare(x.s, y.s)
  ELSE IF x.kind = "num" /\ y.kind = "num"
       THEN (IF x.n > y.n THEN 1 ELSE IF x.n < y.n THEN -1 ELSE 0)
       ELSE 0

\* Mixin.Sorting sortAscIgnoreUndefined: undefined sorts lowest.
sortAscIgnoreUndefined(x, y) ==
  IF x.kind = "undef" /\ y.kind = "undef" THEN 0
  ELSE IF x.kind = "undef" THEN -1
  ELSE IF y.kind = "undef" THEN 1
  ELSE sortAsc(x, y)

\* Mixin.Sorting sortDescIgnoreUndefined: natural order negated, undefined
\* still lowest.
sortDescIgnoreUndefined(x, y) ==
  IF x.kind = "undef" /\ y.kind = "undef" THEN 0
  ELSE IF x.kind = "undef" THEN -1
  ELSE IF y.kind = "undef" THEN 1
  ELSE 0 - sortAsc(x, y)

\* ------------------------------------------------------------------ comparator
\* One iteration of the loop of _compareFunc: the comparison on key i.
fieldCompare(keys, i, x, y) ==
  IF keys[i].value = 1
    THEN sortAscIgnoreUndefined(Get(x, keys[i].path), Get(y, keys[i].path))
    ELSE IF keys[i].value = -1
      THEN sortDescIgnoreUndefined(Get(x, keys[i].path), Get(y, keys[i].path))
      ELSE 0

RECURSIVE compareFromLastWins(_, _, _, _)
\* The loop of _compareFunc without the early return: a later field's
\* non-zero comparison overwrites an earlier one.
compareFromLastWins(keys, i, x, y) ==
  IF i > Len(keys) THEN 0
  ELSE IF compareFromLastWins(keys, i + 1, x, y) # 0
    THEN compareFromLastWins(keys, i + 1, x, y)
    ELSE fieldCompare(keys, i, x, y)

RECURSIVE compareFrom(_, _, _, _)
\* The loop of _compareFunc from key i on: the first non-zero field
\* comparison is returned at once, 0 after the last key.
compareFrom(keys, i, x, y) ==
  IF i > Len(keys) THEN 0
  ELSE IF fieldCompare(keys, i, x, y) # 0 THEN fieldCompare(keys, i, x, y)
  ELSE compareFrom(keys, i + 1, x, y)

\* BinaryTree.prototype._compareFunc(a, b) for documents x and y.
compareFunc(keys, x, y) == compareFrom(keys, 1, x, y)

\* BinaryTree.prototype._hashFunc: the value of the first key field.
hashFunc(keys, d) == Get(d, keys[1].path)

\* ------------------------------------------------------------------ heap
\* Every insert constructs at most one object, the root exists from the start.
NodeIds == 1..(MaxCalls + 1)
Root == 1
Nil == 0

\* A BinaryTree object that was never given data.
BlankNode == [data |-> NoData, left |-> Nil, right |-> Nil, hash |-> Undef,
              primaryKey |-> NoKey]

\* new BinaryTree(data, index, this._binaryTree, compareFunc, hashFunc) as
\* called by insert: the third argument is an absent property, so the new
\* node has no primary key.
NewChild(keys, d) ==
  [data |-> d, left |-> Nil, right |-> Nil, hash |-> hashFunc(keys, d),
   primaryKey |-> NoKey]

VARIABLES
  keys,     \* this._keys: the parsed index spec (shared by every node)
  nodes,    \* node id -> the BinaryTree object's fields
  used,     \* number of BinaryTree objects constructed so far
  held,     \* documents inserted and not yet removed, as the caller sees it
  calls,    \* number of insert, remove and clear calls made so far
  removals, \* number of those that were remove or clear calls
  last,     \* the last call made on the tree and what it returned
  encodeSteps,     \* NodePersist _encodeSteps: the encode step functions
  decodeSteps,     \* NodePersist _decodeSteps: the decode step functions
  files,           \* dataDir: key -> the .fdb file stored under the key
  autoFlag,        \* NodePersist _auto
  autoNames,       \* NodePersist _autoNames
  createListeners, \* the db's listeners of 'create', in registration order
  changeListeners, \* the db's listeners of 'change', in registration order
  collData,        \* collection name -> the collection's _data
  persistCalls,    \* number of calls made on the persistence layer so far
  reply            \* the last persistence call and what its callback got

\* The state of the persistence layer and of the db it is attached to.
persistVars == <<encodeSteps, decodeSteps, files, autoFlag, autoNames,
                 createListeners, changeListeners, collData, persistCalls,
                 reply>>

\* The state of the index tree and of its caller.
treeVars == <<keys, nodes, used, held, calls, removals, last>>

vars == <<treeVars, persistVars>>

\* ------------------------------------------------------------------ calls
NoCall == [op |-> "none", doc |-> NoData, ret |-> "none", arr |-> <<>>,
           path |-> "", val |-> <<>>, from |-> 0, to |-> 0,
           query |-> <<>>, matchedKeys |-> <<>>, totalKeyCount |-> 0,
           score |-> 0, other |-> NoData, result |-> 0, batch |-> <<>>,
           inserted |-> <<>>, failed |-> <<>>]

\* ------------------------------------------------------------------ insert
\* insertBranch with the branches of 1 and -1 exchanged.
insertBranchSwapped(result) == IF result = 1 THEN "right" ELSE "left"

\* Branch selection that sends an equal document right.
insertBranchEqualRight(result) == IF result = 1 THEN "left" ELSE "right"

\* The branch insert() routes to for a comparator result: 0 and 1 go left,
\* -1 goes right.
insertBranch(result) == IF result = -1 THEN "right" ELSE "left"

\* insert that does not look for an existing child: the new node is linked at
\* the branch whatever is there.
insertReplacesChild(ks, ns, u, n, d) ==
  IF ns[n].data = NoData
    THEN [nodes |-> [ns EXCEPT ![n].data = d, ![n].hash = hashFunc(ks, d)],
          used |-> u, ret |-> TRUE]
    ELSE LET result == compareFunc(ks, ns[n].data, d)
             m == u + 1
         IN [nodes |-> IF result = -1
                         THEN [ns EXCEPT ![n].right = m, ![m] = NewChild(ks, d)]
                         ELSE [ns EXCEPT ![n].left = m, ![m] = NewChild(ks, d)],
             used |-> m, ret |-> TRUE]

RECURSIVE insert(_, _, _, _, _)
\* BinaryTree.prototype.insert(data) on node n of heap ns with u objects
\* constructed; yields the new heap, the object count and the returned
\* value (true on every path a comparator result in -1, 0, 1 takes).
insert(ks, ns, u, n, d) ==
  IF ns[n].data = NoData
    THEN [nodes |-> [ns EXCEPT ![n].data = d, ![n].hash = hashFunc(ks, d)],
          used |-> u, ret |-> TRUE]
    ELSE LET result == compareFunc(ks, ns[n].data, d)
             child == IF insertBranch(result) = "left" THEN ns[n].left
                      ELSE ns[n].right
         IN IF child # Nil
              THEN [insert(ks, ns, u, child, d) EXCEPT !.ret = TRUE]
              ELSE LET m == u + 1
                   IN [nodes |-> IF insertBranch(result) = "left"
                                   THEN [ns EXCEPT ![n].left = m,
                                                   ![m] = NewChild(ks, d)]
                                   ELSE [ns EXCEPT ![n].right = m,
                                                   ![m] = NewChild(ks, d)],
                       used |-> m, ret |-> TRUE]

\* ------------------------------------------------------------------ remove
\* BinaryTree.prototype.clear on node n: _data, _left and _right are deleted
\* (the cached _hash is not).
clear(ns, n) ==
  [ns EXCEPT ![n].data = NoData, ![n].left = Nil, ![n].right = Nil]

RECURSIVE rightMost(_, _)
\* BinaryTree.prototype.rightMost from node n.
rightMost(ns, n) ==
  IF ns[n].right = Nil THEN n ELSE rightMost(ns, ns[n].right)

\* attachRight storing the right branch in the _left property instead.
attachRightAsLeft(ns, leftNode, rightNode) ==
  [ns EXCEPT ![rightMost(ns, leftNode)].left = rightNode]

\* Where _remove attaches the backed-up right branch: the _right property of
\* leftNode.rightMost().
attachRight(ns, leftNode, rightNode) ==
  [ns EXCEPT ![rightMost(ns, leftNode)].right = rightNode]

\* _remove whose right-child promotion keeps the right child linked
\* (this._right = rightNode instead of rightNode._right).
spliceNodeKeepsRight(ns, n) ==
  IF ns[n].left # Nil
    THEN LET leftNode == ns[n].left
             rightNode == ns[n].right
             copied == [ns EXCEPT ![n].left = ns[leftNode].left,
                                  ![n].right = ns[leftNode].right,
                                  ![n].data = ns[leftNode].data]
         IN IF rightNode # Nil
              THEN attachRight(copied, leftNode, rightNode)
              ELSE copied
    ELSE IF ns[n].right # Nil
      THEN LET rightNode == ns[n].right
           IN [ns EXCEPT ![n].left = ns[rightNode].left,
                         ![n].right = rightNode,
                         ![n].data = ns[rightNode].data]
      ELSE clear(ns, n)

\* BinaryTree.prototype._remove called on node n (its argument is unused).
spliceNode(ns, n) ==
  IF ns[n].left # Nil
    THEN LET leftNode == ns[n].left
             rightNode == ns[n].right
             copied == [ns EXCEPT ![n].left = ns[leftNode].left,
                                  ![n].right = ns[leftNode].right,
                                  ![n].data = ns[leftNode].data]
         IN IF rightNode # Nil
              THEN attachRight(copied, leftNode, rightNode)
              ELSE copied
    ELSE IF ns[n].right # Nil
      THEN LET rightNode == ns[n].right
           IN [ns EXCEPT ![n].left = ns[rightNode].left,
                         ![n].right = ns[rightNode].right,
                         ![n].data = ns[rightNode].data]
      ELSE clear(ns, n)

\* this._data[pk] === data[pk] on node n: with an absent primaryKey both
\* sides read the property named "undefined" and are undefined.
pkMatches(ns, n, d) ==
  IF ns[n].primaryKey = NoKey THEN TRUE
  ELSE Get(ns[n].data, ns[n].primaryKey) = Get(d, ns[n].primaryKey)

RECURSIVE removeDropsResult(_, _, _, _)
\* remove whose recursive calls are made without "return": the child's result
\* is dropped and the call falls through to "return false".
removeDropsResult(ks, ns, n, d) ==
  IF ns[n].data = NoData THEN [nodes |-> ns, ret |-> "throw"]
  ELSE IF pkMatches(ns, n, d) THEN [nodes |-> spliceNode(ns, n), ret |-> "true"]
  ELSE LET result == compareFunc(ks, ns[n].data, d)
           below == IF result = -1 /\ ns[n].right # Nil
                      THEN removeDropsResult(ks, ns, ns[n].right, d)
                      ELSE IF result = 1 /\ ns[n].left # Nil
                        THEN removeDropsResult(ks, ns, ns[n].left, d)
                        ELSE [nodes |-> ns, ret |-> "false"]
       IN IF below.ret = "throw" THEN below
          ELSE [nodes |-> below.nodes, ret |-> "false"]

RECURSIVE remove(_, _, _, _)
\* BinaryTree.prototype.remove(data) on node n: the new heap and the returned
\* value ("throw" when this._data is absent and reading this._data[pk]
\* raises a TypeError).
remove(ks, ns, n, d) ==
  IF ns[n].data = NoData THEN [nodes |-> ns, ret |-> "throw"]
  ELSE IF pkMatches(ns, n, d) THEN [nodes |-> spliceNode(ns, n), ret |-> "true"]
  ELSE LET result == compareFunc(ks, ns[n].data, d)
       IN IF result = -1 /\ ns[n].right # Nil
            THEN remove(ks, ns, ns[n].right, d)
            ELSE IF result = 1 /\ ns[n].left # Nil
              THEN remove(ks, ns, ns[n].left, d)
              ELSE [nodes |-> ns, ret |-> "false"]

\* ------------------------------------------------------------------ batches
RECURSIVE insertLoop(_, _, _, _, _, _, _)
\* The array branch of insert from element i on: this.insert(data[i]) on
\* the same node for each element, pushed to inserted or failed.
insertLoop(ks, ns, u, data, i, inserted, failed) ==
  IF i > Len(data)
    THEN [nodes |-> ns, used |-> u, inserted |-> inserted, failed |-> failed]
    ELSE LET r == insert(ks, ns, u, Root, data[i])
         IN IF r.ret
              THEN insertLoop(ks, r.nodes, r.used, data, i + 1,
                              Append(inserted, data[i]), failed)
              ELSE insertLoop(ks, r.nodes, r.used, data, i + 1,
                              inserted, Append(failed, data[i]))

RECURSIVE removeLoopPushesAll(_, _, _, _, _)
\* The array branch of remove pushing every element, whatever its remove
\* returned.
removeLoopPushesAll(ks, ns, data, i, removed) ==
  IF i > Len(data) THEN [nodes |-> ns, ret |-> "array", removed |-> removed]
  ELSE LET r == remove(ks, ns, Root, data[i])
       IN IF r.ret = "throw"
            THEN [nodes |-> r.nodes, ret |-> "throw", removed |-> removed]
            ELSE removeLoopPushesAll(ks, r.nodes, data, i + 1,
                                     Append(removed, data[i]))

RECURSIVE removeLoop(_, _, _, _, _)
\* The array branch of remove from element i on: this.remove(data[i]) for
\* each element, pushed to removed when it returned true; an error raised
\* by one call ends the loop and the batch call ("throw").
removeLoop(ks, ns, data, i, removed) ==
  IF i > Len(data) THEN [nodes |-> ns, ret |-> "array", removed |-> removed]
  ELSE LET r == remove(ks, ns, Root, data[i])
       IN IF r.ret = "throw"
            THEN [nodes |-> r.nodes, ret |-> "throw", removed |-> removed]
            ELSE removeLoop(ks, r.nodes, data, i + 1,
                            IF r.ret = "true" THEN Append(removed, data[i])
                            ELSE removed)

\* ------------------------------------------------------------------ inOrder
RECURSIVE inOrder(_, _)
\* BinaryTree.prototype.inOrder('data') from node n: left, this._data, right.
inOrder(ns, n) ==
  (IF ns[n].left # Nil THEN inOrder(ns, ns[n].left) ELSE <<>>)
  \o <<ns[n].data>>
  \o (IF ns[n].right # Nil THEN inOrder(ns, ns[n].right) ELSE <<>>)

\* ------------------------------------------------------------------ lookup
RECURSIVE lookupUnpruned(_, _, _, _)
\* lookup descending into both branches whatever the comparison yields.
lookupUnpruned(ks, ns, n, q) ==
  LET result == compareFunc(ks, ns[n].data, q)
      l == IF ns[n].left # Nil THEN lookupUnpruned(ks, ns, ns[n].left, q) ELSE <<>>
      r == IF ns[n].right # Nil THEN lookupUnpruned(ks, ns, ns[n].right, q) ELSE <<>>
  IN IF result \in {0, -1, 1} THEN l \o <<ns[n].data>> \o r ELSE <<>>

RECURSIVE lookupLeftChainOnly(_, _, _, _)
\* lookup that, on an equal node, does not visit the left branch.
lookupLeftChainOnly(ks, ns, n, q) ==
  LET result == compareFunc(ks, ns[n].data, q)
      l == IF ns[n].left # Nil
             THEN lookupLeftChainOnly(ks, ns, ns[n].left, q) ELSE <<>>
      r == IF ns[n].right # Nil
             THEN lookupLeftChainOnly(ks, ns, ns[n].right, q) ELSE <<>>
  IN IF result = 0 THEN <<ns[n].data>> \o r
     ELSE IF result = -1 THEN r
     ELSE IF result = 1 THEN l
     ELSE <<>>

RECURSIVE lookup(_, _, _, _)
\* BinaryTree.prototype.lookup(data) from node n: the payloads pushed to
\* resultArr, in order.
lookup(ks, ns, n, q) ==
  LET result == compareFunc(ks, ns[n].data, q)
      l == IF ns[n].left # Nil THEN lookup(ks, ns, ns[n].left, q) ELSE <<>>
      r == IF ns[n].right # Nil THEN lookup(ks, ns, ns[n].right, q) ELSE <<>>
  IN IF result = 0 THEN l \o <<ns[n].data>> \o r
     ELSE IF result = -1 THEN r
     ELSE IF result = 1 THEN l
     ELSE <<>>

\* ------------------------------------------------------------------ startsWith
\* String.prototype.substr(0, len).
substr(t, len) == SubSeq(t, 1, IF len < Len(t) THEN len ELSE Len(t))

\* The outcome of a call that raised an error.
Threw == [threw |-> TRUE, arr |-> <<>>]

\* Results of consecutive pushes to the shared resultArr; an error raised by
\* the first part leaves the second unevaluated.
Then(x, y) ==
  IF x.threw THEN Threw
  ELSE IF y.threw THEN Threw
  ELSE [threw |-> FALSE, arr |-> x.arr \o y.arr]

RECURSIVE startsWith(_, _, _, _)
\* BinaryTree.prototype.startsWith(path, val) from node n.  Reading substr
\* of a value that is not a string raises a TypeError.
startsWith(ns, n, path, val) ==
  LET thisDataPathVal == Get(ns[n].data, path)
  IN IF thisDataPathVal.kind # "str" THEN Threw
     ELSE LET thisDataPathValSubStr == substr(thisDataPathVal.s, Len(val))
              result == sortAscIgnoreUndefined(Str(thisDataPathValSubStr), Str(val))
              reTest == thisDataPathValSubStr = val
              none == [threw |-> FALSE, arr |-> <<>>]
              l == IF ns[n].left # Nil
                     THEN startsWith(ns, ns[n].left, path, val) ELSE none
              r == IF ns[n].right # Nil
                     THEN startsWith(ns, ns[n].right, path, val) ELSE none
              me == [threw |-> FALSE,
                     arr |-> IF reTest THEN <<ns[n].data>> ELSE <<>>]
          IN IF result = 0 THEN Then(Then(l, me), r)
             ELSE IF result = -1 THEN Then(me, r)
             ELSE IF result = 1 THEN Then(l, me)
             ELSE none

\* ------------------------------------------------------------------ findRange
\* inRange with the upper bound exclusive.
inRangeExclusiveTo(pathVal, from, to) ==
  LET fromResult == sortAscIgnoreUndefined(pathVal, from)
      toResult == sortAscIgnoreUndefined(pathVal, to)
  IN (fromResult = 0 \/ fromResult = 1) /\ toResult = -1

\* The test findRange applies to a node's value at the path.
inRange(pathVal, from, to) ==
  LET fromResult == sortAscIgnoreUndefined(pathVal, from)
      toResult == sortAscIgnoreUndefined(pathVal, to)
  IN (fromResult = 0 \/ fromResult = 1) /\ (toResult = 0 \/ toResult = -1)

RECURSIVE findRange(_, _, _, _, _)
\* BinaryTree.prototype.findRange('data', key, from, to) from node n.
findRange(ns, n, path, from, to) ==
  (IF ns[n].left # Nil THEN findRange(ns, ns[n].left, path, from, to) ELSE <<>>)
  \o (IF inRange(Get(ns[n].data, path), from, to) THEN <<ns[n].data>> ELSE <<>>)
  \o (IF ns[n].right # Nil THEN findRange(ns, ns[n].right, path, from, to) ELSE <<>>)

\* ------------------------------------------------------------------ match
\* Keys a query object may carry; OperatorKey stands for a "$"-prefixed key.
OperatorKey == "$or"
QueryKeys == {"a", "b", "s", OperatorKey}

\* Longest query object considered.
MaxQueryLen == 3

\* Path.parseArr(query, {ignore: /\$/, verbose: true}) of a flat query whose
\* keys are listed in order: the keys that do not contain "$".
parseArr(query) == SelectSeq(query, LAMBDA k : k # OperatorKey)

\* Path.parseArr(this._index, {verbose: true}): the index paths in order.
indexPaths(ks) == [i \in 1..Len(ks) |-> ks[i].path]

RECURSIVE matchFrom(_, _, _)
\* The loop of match from position i: the matched keys, in order.
matchFrom(indexKeyArr, queryArr, i) ==
  IF i > Len(indexKeyArr) THEN <<>>
  ELSE (IF i <= Len(queryArr) /\ queryArr[i] = indexKeyArr[i]
          THEN <<queryArr[i]>> ELSE <<>>)
       \o matchFrom(indexKeyArr, queryArr, i + 1)

\* BinaryTree.prototype.match(query).
match(ks, query) ==
  LET indexKeyArr == indexPaths(ks)
      queryArr == parseArr(query)
      matchedKeys == matchFrom(indexKeyArr, queryArr, 1)
  IN [matchedKeys |-> matchedKeys,
      totalKeyCount |-> Len(queryArr),
      score |-> Len(matchedKeys)]

\* ------------------------------------------------------------------ persisted values
\* Text is a sequence of tokens; the separator '::fdb::' is one token, so
\* that splitting on it is exact.  A value is a string, an object (its
\* content given as the text between the braces of its JSON form), a
\* number (its digits) or undefined.
Sep == "::fdb::"
Undefined == [kind |-> "undef", toks |-> <<>>]
StrVal(t) == [kind |-> "str", toks |-> t]
ObjVal(t) == [kind |-> "obj", toks |-> t]
NumVal(t) == [kind |-> "num", toks |-> t]

\* if (val): strings other than '' and objects are truthy, undefined is
\* not; the numbers used here are not 0.
Truthy(v) == v.kind \in {"obj", "num"} \/ (v.kind = "str" /\ v.toks # <<>>)

\* The string a value becomes when it is concatenated to a string.
ToText(v) ==
  IF v.kind = "undef" THEN <<"undefined">>
  ELSE IF v.kind = "obj" THEN <<"[object Object]">>
  ELSE v.toks

\* Mixin.Common jStringify: the JSON text of an object.
jStringify(v) == <<"{">> \o v.toks \o <<"}">>

\* Mixin.Common jParse: the object of a JSON text; a SyntaxError on text
\* that is not a complete JSON object.
jParse(t) ==
  IF Len(t) >= 2 /\ t[1] = "{" /\ t[Len(t)] = "}"
    THEN [threw |-> FALSE, val |-> ObjVal(SubSeq(t, 2, Len(t) - 1))]
    ELSE [threw |-> TRUE, val |-> Undefined]

RECURSIVE split(_)
\* String.prototype.split('::fdb::'): the parts between the separators.
split(t) ==
  IF \A i \in 1..Len(t) : t[i] # Sep THEN <<t>>
  ELSE LET i == CHOOSE k \in 1..Len(t) :
                  t[k] = Sep /\ \A j \in 1..(k - 1) : t[j] # Sep
       IN <<SubSeq(t, 1, i - 1)>> \o split(SubSeq(t, i + 1, Len(t)))

\* ------------------------------------------------------------------ encode / decode
\* What a step passes to its callback: err (the string "false" for false),
\* the value, or an error raised instead of a callback.
Passed(err, val) == [err |-> err, val |-> val, threw |-> FALSE]
Raised == [err |-> "false", val |-> Undefined, threw |-> TRUE]

\* NodePersist.prototype._encode(val, meta, finished).
_encode(val) ==
  IF val.kind = "obj"
    THEN Passed("false", StrVal(<<"json", Sep>> \o jStringify(val)))
    ELSE Passed("false", StrVal(<<"raw", Sep>> \o ToText(val)))

\* The json case of _decode: the parsed text is the data, an error raised
\* by jParse leaves _decode.
decodeJson(parsed) ==
  IF parsed.threw THEN Raised ELSE Passed("false", parsed.val)

\* The switch of _decode on parts[0]: 'json' parses parts[1] (jParse of
\* an absent part raises a SyntaxError), 'raw' takes parts[1], anything else
\* leaves data undefined.
decodeParts(parts) ==
  IF parts[1] = <<"json">>
    THEN IF Len(parts) < 2 THEN Raised ELSE decodeJson(jParse(parts[2]))
    ELSE IF parts[1] = <<"raw">>
      THEN IF Len(parts) < 2 THEN Passed("false", Undefined)
           ELSE Passed("false", StrVal(parts[2]))
      ELSE Passed("false", Undefined)

\* NodePersist.prototype._decode(val, meta, finished); val.split raises a
\* TypeError on a value that is not a string.
_decode(val) ==
  IF Truthy(val)
    THEN IF val.kind # "str" THEN Raised ELSE decodeParts(split(val.toks))
    ELSE Passed("false", val)

\* The steps a caller adds with addStep: "tag" prefixes the text with a
\* marker on encode and strips it on decode, "fail" passes an error to the
\* callback on encode and passes the value on unchanged on decode.
CustomSteps == {"tag", "fail"}

\* One encode step function applied to val.
encodeStep(step, val) ==
  IF step = "default" THEN _encode(val)
  ELSE IF step = "tag" THEN Passed("false", StrVal(<<"T">> \o ToText(val)))
  ELSE Passed("encode failed", Undefined)

\* One decode step function applied to val.
decodeStep(step, val) ==
  IF step = "default" THEN _decode(val)
  ELSE IF step = "tag"
    THEN IF val.kind = "str" /\ val.toks # <<>> /\ Head(val.toks) = "T"
           THEN Passed("false", StrVal(Tail(val.toks)))
           ELSE Passed("no marker", Undefined)
    ELSE Passed("false", val)

RECURSIVE waterfall(_, _, _, _)
\* What async.waterfall does with what step i passed: an err other than
\* false ends the run and finished gets (err) alone, else the next step is
\* called with the value.
afterStep(steps, encoding, i, passed) ==
  IF passed.threw THEN Raised
  ELSE IF passed.err # "false" THEN Passed(passed.err, Undefined)
  ELSE waterfall(steps, encoding, i + 1, passed.val)

\* async.waterfall over the steps from step i on, val being what the
\* previous step passed.
waterfall(steps, encoding, i, val) ==
  IF i > Len(steps) THEN Passed("false", val)
  ELSE IF encoding
    THEN afterStep(steps, encoding, i, encodeStep(steps[i], val))
    ELSE afterStep(steps, encoding, i, decodeStep(steps[i], val))

\* NodePersist.prototype.encode(val, finished).
encode(steps, val) == waterfall(steps, TRUE, 1, val)

\* NodePersist.prototype.decode(val, finished).
decode(steps, val) == waterfall(steps, FALSE, 1, val)

\* ------------------------------------------------------------------ addStep
\* Array.prototype.splice(start, 0, x): x inserted before position start
\* (0-based); a negative start counts from the end, and start is clamped
\* to the array.
spliceIn(seq, start, x) ==
  LET from == IF start < 0
                THEN (IF Len(seq) + start < 0 THEN 0 ELSE Len(seq) + start)
                ELSE (IF start > Len(seq) THEN Len(seq) ELSE start)
  IN SubSeq(seq, 1, from) \o <<x>> \o SubSeq(seq, from + 1, Len(seq))

\* addStep's $main on _encodeSteps: push for index 0 (or none), else
\* splice at index.
addEncodeStep(steps, step, index) ==
  IF index = 0 THEN Append(steps, step) ELSE spliceIn(steps, index, step)

\* addStep's $main on _decodeSteps: unshift for index 0 (or none), else
\* splice at length - index.
addDecodeStep(steps, step, index) ==
  IF index = 0 THEN <<step>> \o steps
  ELSE spliceIn(steps, Len(steps) - index, step)

\* ------------------------------------------------------------------ data files
\* The collections of the db, and the keys their data and meta data are
\* stored under (db name + '-' + collection name [+ '-metaData']).
Collections == {"c1", "c2"}
DataKey == [c1 |-> "db-c1", c2 |-> "db-c2"]
MetaKey == [c1 |-> "db-c1-metaData", c2 |-> "db-c2-metaData"]

\* The keys used: one the caller saves under directly, and the collections'.
DirectKeys == {"k"}
FileKeys == DirectKeys \cup {DataKey[c] : c \in Collections}
                       \cup {MetaKey[c] : c \in Collections}

NoFile == [exists |-> FALSE, text |-> <<>>]
File(t) == [exists |-> TRUE, text |-> t]

\* What a call of the persistence layer did: the files afterwards, how
\* often its callback was invoked, the err and data the callback got,
\* whether an error was raised instead, and the err the encode run passed.
Done(fs, invoked, err, data, threw, encodeErr) ==
  [files |-> fs, invoked |-> invoked, err |-> err, data |-> data,
   threw |-> threw, encodeErr |-> encodeErr]

\* saveDataFile with what the encode run delivered, and save's callback.
\* fs.writeFile given a string writes it; given undefined it either writes
\* the text 'undefined' (legacyWrite) or raises a TypeError, depending on
\* the Node.js version.
saveDataFile(fs, key, encoded, legacyWrite) ==
  IF encoded.threw THEN Done(fs, 0, "false", Undefined, TRUE, "false")
  ELSE IF encoded.val.kind = "str" \/ legacyWrite
    THEN Done([fs EXCEPT ![key] = File(ToText(encoded.val))],
              1, "false", Undefined, FALSE, encoded.err)
    ELSE Done(fs, 0, "false", Undefined, TRUE, encoded.err)

\* NodePersist.prototype.save(key, data, callback) in file mode.  The err
\* of the encode run is not looked at: saveDataFile is called with what
\* encode delivered.
save(fs, steps, key, data, legacyWrite) ==
  saveDataFile(fs, key, encode(steps, data), legacyWrite)

\* The callback of load after the decode run of the file's text.
loadDecoded(fs, decoded) ==
  IF decoded.threw THEN Done(fs, 0, "false", Undefined, TRUE, "false")
  ELSE Done(fs, 1, decoded.err, decoded.val, FALSE, "false")

\* NodePersist.prototype.load(key, callback) in file mode: callback(false)
\* when the file does not exist, else the decode run of its text.
load(fs, steps, key) ==
  IF ~fs[key].exists THEN Done(fs, 1, "false", Undefined, FALSE, "false")
  ELSE loadDecoded(fs, decode(steps, StrVal(fs[key].text)))

\* drop that reports success and leaves the file in place.
dropKeepsFile(fs, key) ==
  Done(fs, 1, IF fs[key].exists THEN "null" ELSE "ENOENT", Undefined, FALSE,
       "false")

\* NodePersist.prototype.drop(key, callback) in file mode: fs.unlink, whose
\* err goes to the callback.
drop(fs, key) ==
  IF fs[key].exists
    THEN Done([fs EXCEPT ![key] = NoFile], 1, "null", Undefined, FALSE, "false")
    ELSE Done(fs, 1, "ENOENT", Undefined, FALSE, "false")

\* ------------------------------------------------------------------ collections
\* collection.metaData().
MetaData == ObjVal(<<"m">>)

\* What Collection.prototype.save did: what the last persist.save it called
\* did, and the number of _asyncComplete('save') calls made (one call of
\* _asyncPending('save') precedes the data save).
Saved(done, complete) ==
  [files |-> done.files, invoked |-> done.invoked, err |-> done.err,
   data |-> done.data, threw |-> done.threw, encodeErr |-> done.encodeErr,
   complete |-> complete]

\* The callback of the meta data save: _asyncComplete, then the caller's
\* callback.
metaSaved(second) == Saved(second, IF second.threw THEN 0 ELSE 1)

\* The callback of the data save in Collection.prototype.save: without err
\* the meta data is saved.
saveMetaData(first, steps, name, legacyWrite) ==
  IF first.threw THEN Saved(first, 0)
  ELSE IF first.err # "false" THEN Saved(first, 1)
  ELSE metaSaved(save(first.files, steps, MetaKey[name], MetaData,
                      legacyWrite))

\* Collection.prototype.save(callback) of a named collection attached to
\* the db, no queue being processed: the data, then the meta data.
collectionSave(fs, steps, name, data, legacyWrite) ==
  saveMetaData(save(fs, steps, DataKey[name], data, legacyWrite),
               steps, name, legacyWrite)

\* What Collection.prototype.load delivers: the collection's data
\* afterwards and what its callback got.
Loaded(data, done, complete) ==
  [data |-> data, invoked |-> done.invoked, err |-> done.err,
   threw |-> done.threw, complete |-> complete]

\* The callback of the meta data load: _asyncComplete('load') is called
\* when there is no err, then the caller's callback with err.
metaLoaded(data, second) ==
  Loaded(data, second,
         IF ~second.threw /\ second.err = "false" THEN 1 ELSE 0)

\* The callback of the data load in Collection.prototype.load: truthy data
\* replaces the collection's, then the meta data is loaded.
loadMetaData(first, fs, steps, name, data) ==
  IF first.threw THEN Loaded(data, first, 0)
  ELSE IF first.err # "false" THEN Loaded(data, first, 1)
  ELSE metaLoaded(IF Truthy(first.data) THEN first.data ELSE data,
                  load(fs, steps, MetaKey[name]))

\* Collection.prototype.load(callback) of a named collection attached to
\* the db.
collectionLoad(fs, steps, name, data) ==
  loadMetaData(load(fs, steps, DataKey[name]), fs, steps, name, data)

\* ------------------------------------------------------------------ db
\* Where Db.prototype.save and load stand: the files and the collections'
\* data, the counter keyCount, the errs the caller's callback was invoked
\* with so far, and whether a collection raised an error.
DbRun(fs, data, keyCount, callbacks, threw) ==
  [files |-> fs, data |-> data, keyCount |-> keyCount,
   callbacks |-> callbacks, threw |-> threw]

\* saveCallback(err) of Db.prototype.save.
saveCallback(run, err) ==
  IF err = "false"
    THEN DbRun(run.files, run.data, run.keyCount - 1,
               IF run.keyCount - 1 = 0 THEN Append(run.callbacks, "false")
               ELSE run.callbacks,
               run.threw)
    ELSE DbRun(run.files, run.data, run.keyCount,
               Append(run.callbacks, err), run.threw)

\* loadCallback(err) of Db.prototype.load.
loadCallback(run, err) ==
  IF err = "false"
    THEN DbRun(run.files, run.data, run.keyCount - 1,
               IF run.keyCount - 1 = 0 THEN Append(run.callbacks, "false")
               ELSE run.callbacks,
               run.threw)
    ELSE DbRun(run.files, run.data, run.keyCount,
               Append(run.callbacks, err), run.threw)

RECURSIVE dbSave(_, _, _, _, _)
\* The loop of Db.prototype.save after the save of collection order[i].
dbSaveNext(saved, steps, order, legacyWrite, i, run) ==
  IF saved.threw
    THEN DbRun(saved.files, run.data, run.keyCount, run.callbacks, TRUE)
    ELSE dbSave(steps, order, legacyWrite, i + 1,
                saveCallback(DbRun(saved.files, run.data, run.keyCount,
                                   run.callbacks, run.threw),
                             saved.err))

\* Db.prototype.save(callback) from collection order[i] on: each
\* collection's save is given saveCallback.
dbSave(steps, order, legacyWrite, i, run) ==
  IF i > Len(order) THEN run
  ELSE dbSaveNext(collectionSave(run.files, steps, order[i],
                                 run.data[order[i]], legacyWrite),
                  steps, order, legacyWrite, i, run)

RECURSIVE dbLoad(_, _, _, _)
\* The loop of Db.prototype.load after the load of collection order[i].
dbLoadNext(loaded, steps, order, i, run) ==
  IF loaded.threw
    THEN DbRun(run.files, run.data, run.keyCount, run.callbacks, TRUE)
    ELSE dbLoad(steps, order, i + 1,
                loadCallback(DbRun(run.files,
                                   [run.data EXCEPT ![order[i]] = loaded.data],
                                   run.keyCount, run.callbacks, run.threw),
                             loaded.err))

\* Db.prototype.load(callback) from collection order[i] on: each
\* collection's load is given loadCallback.
dbLoad(steps, order, i, run) ==
  IF i > Len(order) THEN run
  ELSE dbLoadNext(collectionLoad(run.files, steps, order[i],
                                 run.data[order[i]]),
                  steps, order, i, run)

\* ------------------------------------------------------------------ auto
\* The objNames argument of auto: none, or the names of the collections
\* to persist automatically.
NoNames == [given |-> FALSE, names |-> {}]
Names(S) == [given |-> TRUE, names |-> S]

\* The functions registered as listeners: the closures auto(true) creates
\* ("hook"); auto(false) passes the methods _autoLoad and _autoSave to off.
Hook == "hook"

RECURSIVE off(_, _)
\* Mixin.Events off(event, listener): the listeners without that function.
off(listeners, fn) ==
  IF listeners = <<>> THEN <<>>
  ELSE IF Head(listeners) = fn THEN off(Tail(listeners), fn)
  ELSE <<Head(listeners)>> \o off(Tail(listeners), fn)

\* The test of both closures: without _autoNames every object is
\* persisted, else the ones named.
selected(names, name) == ~names.given \/ name \in names.names

\* What the listeners of an event did: the files and the object's data
\* afterwards, the number of saves or loads started, and whether one of
\* them raised an error.
Emitted(fs, data, started, threw) ==
  [files |-> fs, data |-> data, started |-> started, threw |-> threw]

\* One more started save or load, which raised an error or not.
oneMore(rest, threw) ==
  Emitted(rest.files, rest.data, rest.started + 1, rest.threw \/ threw)

RECURSIVE emitChange(_, _, _, _, _, _, _, _)
\* The remaining 'change' listeners after the save one of them started.
changeRest(saved, steps, listeners, names, name, data, legacyWrite, i) ==
  oneMore(emitChange(saved.files, steps, listeners, names, name, data,
                     legacyWrite, i + 1), saved.threw)

\* The db emits 'change' for collection name: the listeners from i on are
\* called in order, each selected one calling _autoSave, that is obj.save.
emitChange(fs, steps, listeners, names, name, data, legacyWrite, i) ==
  IF i > Len(listeners) THEN Emitted(fs, data, 0, FALSE)
  ELSE IF listeners[i] = Hook /\ selected(names, name)
    THEN changeRest(collectionSave(fs, steps, name, data, legacyWrite),
                    steps, listeners, names, name, data, legacyWrite, i)
    ELSE emitChange(fs, steps, listeners, names, name, data, legacyWrite,
                    i + 1)

RECURSIVE emitCreate(_, _, _, _, _, _, _)
\* The remaining 'create' listeners after the load one of them started.
createRest(loaded, fs, steps, listeners, names, name, i) ==
  oneMore(emitCreate(fs, steps, listeners, names, name, loaded.data, i + 1),
          loaded.threw)

\* The db emits 'create' for collection name: each selected listener calls
\* _autoLoad, that is obj.load.
emitCreate(fs, steps, listeners, names, name, data, i) ==
  IF i > Len(listeners) THEN Emitted(fs, data, 0, FALSE)
  ELSE IF listeners[i] = Hook /\ selected(names, name)
    THEN createRest(collectionLoad(fs, steps, name, data),
                    fs, steps, listeners, names, name, i)
    ELSE emitCreate(fs, steps, listeners, names, name, data, i + 1)

\* The record of a persistence call before any call.
NoReply == [op |-> "none", key |-> "", payload |-> Undefined, invoked |-> 0,
            err |-> "false", data |-> Undefined, threw |-> FALSE,
            encodeErr |-> "false", saves |-> 0, loads |-> 0,
            pending |-> 0, complete |-> 0, callbacks |-> <<>>,
            keyCount |-> 0]

\* ------------------------------------------------------------------ state machine
\* new BinaryTree(undefined, index, primaryKey): the root has no data and no
\* children; no other object exists yet.
EmptyHeap ==
  [n \in NodeIds |->
     IF n = Root THEN [BlankNode EXCEPT !.primaryKey = PrimaryKeyField]
     ELSE BlankNode]

Init ==
  /\ keys \in IndexSpecs
  /\ nodes = EmptyHeap
  /\ used = 1
  /\ held = {}
  /\ calls = 0
  /\ removals = 0
  /\ last = NoCall
  /\ encodeSteps = <<"default">>
  /\ decodeSteps = <<"default">>
  /\ files = [k \in FileKeys |-> NoFile]
  /\ autoFlag = FALSE
  /\ autoNames = NoNames
  /\ createListeners = <<>>
  /\ changeListeners = <<>>
  /\ collData = [c \in Collections |-> ObjVal(<<"a">>)]
  /\ persistCalls = 0
  /\ reply = NoReply

\* tree.insert(d) for a document the caller does not hold in the tree yet.
Insert ==
  \E d \in Docs \ held :
    /\ calls < MaxCalls
    /\ LET r == insert(keys, nodes, used, Root, d)
       IN /\ nodes' = r.nodes
          /\ used' = r.used
    /\ held' = held \cup {d}
    /\ calls' = calls + 1
    /\ last' = [NoCall EXCEPT !.op = "insert", !.doc = d, !.ret = "true"]
    /\ UNCHANGED <<keys, removals, persistVars>>

\* tree.remove(d) for any document.
Remove ==
  \E d \in Docs :
    LET r == remove(keys, nodes, Root, d)
    IN /\ calls < MaxCalls
       /\ nodes' = r.nodes
       /\ held' = IF r.ret = "true" THEN held \ {d} ELSE held
       /\ calls' = calls + 1
       /\ removals' = removals + 1
       /\ last' = [NoCall EXCEPT !.op = "remove", !.doc = d, !.ret = r.ret]
       /\ UNCHANGED <<keys, used, persistVars>>

\* tree.clear().
Clear ==
  /\ calls < MaxCalls
  /\ nodes' = clear(nodes, Root)
  /\ held' = {}
  /\ calls' = calls + 1
  /\ removals' = removals + 1
  /\ last' = [NoCall EXCEPT !.op = "clear"]
  /\ UNCHANGED <<keys, used, persistVars>>

Next == Insert \/ Remove \/ Clear

\* ------------------------------------------------------------------ queries
\* Prefixes asked for: every string of at most two letters.
Prefixes == {<<>>} \cup {<<x>> : x \in Letters}
              \cup {<<x, y>> : x \in Letters, y \in Letters}

\* Range bounds asked for.
MaxBound == 3
RangeBounds == 0..MaxBound

\* Query objects asked about: key lists without repetition.
Queries ==
  UNION {{q \in [1..len -> QueryKeys] :
            \A i, j \in 1..len : i # j => q[i] # q[j]} : len \in 0..MaxQueryLen}

\* tree.lookup(q).
Lookup ==
  \E q \in Docs :
    /\ last' = [NoCall EXCEPT !.op = "lookup", !.doc = q, !.ret = "array",
                              !.arr = lookup(keys, nodes, Root, q)]
    /\ UNCHANGED <<keys, nodes, used, held, calls, removals, persistVars>>

\* tree.startsWith("s", val).
StartsWith ==
  \E val \in Prefixes :
    LET r == startsWith(nodes, Root, "s", val)
    IN /\ last' = [NoCall EXCEPT !.op = "startsWith", !.path = "s", !.val = val,
                                 !.ret = IF r.threw THEN "throw" ELSE "array",
                                 !.arr = r.arr]
       /\ UNCHANGED <<keys, nodes, used, held, calls, removals, persistVars>>

\* tree.findRange('data', path, from, to) on a numeric field.
FindRange ==
  \E path \in {"a", "b"}, from \in RangeBounds, to \in RangeBounds :
    /\ last' = [NoCall EXCEPT !.op = "findRange", !.path = path,
                              !.from = from, !.to = to, !.ret = "array",
                              !.arr = findRange(nodes, Root, path, Num(from), Num(to))]
    /\ UNCHANGED <<keys, nodes, used, held, calls, removals, persistVars>>

\* tree.match(query).
Match ==
  \E query \in Queries :
    LET r == match(keys, query)
    IN /\ last' = [NoCall EXCEPT !.op = "match", !.query = query,
                                 !.ret = "object",
                                 !.matchedKeys = r.matchedKeys,
                                 !.totalKeyCount = r.totalKeyCount,
                                 !.score = r.score]
       /\ UNCHANGED <<keys, nodes, used, held, calls, removals, persistVars>>

\* Trees built by inserts alone, and one kind of query made on them.
\* tree._compareFunc(a, b) on two documents.
Compare ==
  \E a \in Docs, b \in Docs :
    /\ last' = [NoCall EXCEPT !.op = "compare", !.doc = a, !.other = b,
                              !.result = compareFunc(keys, a, b)]
    /\ UNCHANGED <<keys, nodes, used, held, calls, removals, persistVars>>

NextCompare == Compare
SpecCompare == Init /\ [][NextCompare]_vars

\* Longest array passed to a batch call.
MaxBatch == 2

\* Number of elements the batch calls pass in total.
MaxBatchCalls == 4

\* The arrays of documents of a set, up to MaxBatch long.
Batches(S) == UNION {[1..k -> S] : k \in 0..MaxBatch}

\* tree.insert(array) with documents the caller does not hold in the tree
\* yet, each at most once.
InsertBatch ==
  \E data \in Batches(Docs \ held) :
    LET r == insertLoop(keys, nodes, used, data, 1, <<>>, <<>>)
    IN /\ \A i, j \in 1..Len(data) : data[i] = data[j] => i = j
       /\ calls + Len(data) <= MaxBatchCalls
       /\ nodes' = r.nodes
       /\ used' = r.used
       /\ held' = held \cup {data[i] : i \in 1..Len(data)}
       /\ calls' = calls + Len(data)
       /\ last' = [NoCall EXCEPT !.op = "insertBatch", !.batch = data,
                                 !.ret = "object", !.inserted = r.inserted,
                                 !.failed = r.failed]
       /\ UNCHANGED <<keys, removals, persistVars>>

\* tree.remove(array) with any documents.
RemoveBatch ==
  \E data \in Batches(Docs) :
    LET r == removeLoop(keys, nodes, data, 1, <<>>)
    IN /\ calls + Len(data) <= MaxBatchCalls
       /\ nodes' = r.nodes
       /\ held' = held \ {r.removed[i] : i \in 1..Len(r.removed)}
       /\ calls' = calls + Len(data)
       /\ removals' = removals + Len(data)
       /\ last' = [NoCall EXCEPT !.op = "removeBatch", !.batch = data,
                                 !.ret = r.ret,
                                 !.arr = IF r.ret = "array" THEN r.removed
                                         ELSE <<>>]
       /\ UNCHANGED <<keys, used, persistVars>>

NextBatch == InsertBatch \/ RemoveBatch
SpecBatch == Init /\ [][NextBatch]_vars

\* Number of calls made on the persistence layer and the db.
MaxPersistCalls == 3

\* Number of steps added with addStep, and the largest index passed.
MaxSteps == 2
MaxIndex == 2

\* Number of times auto(true) is called.
MaxHooks == 2

\* The payloads the caller saves: strings (one empty, one holding the
\* separator), objects (one holding the separator in a string) and a number.
Payloads ==
  {StrVal(<<"a">>), StrVal(<<>>), StrVal(<<"a", Sep, "a">>),
   ObjVal(<<"a">>), ObjVal(<<"a", Sep>>), NumVal(<<"5">>)}

\* The data a collection changes to.
CollPayloads == {ObjVal(<<"a">>), ObjVal(<<"b">>)}

\* persist.addStep(encode, decode[, index]); index 0 is also the two forms
\* without index.
AddStep ==
  \E step \in CustomSteps, index \in (-MaxIndex)..MaxIndex :
    /\ persistCalls < MaxPersistCalls
    /\ Len(encodeSteps) <= MaxSteps
    /\ encodeSteps' = addEncodeStep(encodeSteps, step, index)
    /\ decodeSteps' = addDecodeStep(decodeSteps, step, index)
    /\ persistCalls' = persistCalls + 1
    /\ reply' = [NoReply EXCEPT !.op = "addStep"]
    /\ UNCHANGED <<files, autoFlag, autoNames, createListeners,
                   changeListeners, collData, treeVars>>

\* persist.auto(val[, objNames]).
Auto ==
  \E val \in BOOLEAN, objNames \in {NoNames, Names({"c1"})} :
    /\ persistCalls < MaxPersistCalls
    /\ IF val
         THEN /\ Len(changeListeners) < MaxHooks
              /\ autoNames' = IF objNames.given THEN objNames ELSE autoNames
              /\ createListeners' = Append(createListeners, Hook)
              /\ changeListeners' = Append(changeListeners, Hook)
         ELSE /\ objNames = NoNames
              /\ createListeners' = off(createListeners, "_autoLoad")
              /\ changeListeners' = off(changeListeners, "_autoSave")
              /\ UNCHANGED autoNames
    /\ autoFlag' = val
    /\ persistCalls' = persistCalls + 1
    /\ reply' = [NoReply EXCEPT !.op = "auto"]
    /\ UNCHANGED <<encodeSteps, decodeSteps, files, collData, treeVars>>

\* persist.save(key, data, callback), up to its callback.
Save ==
  \E key \in DirectKeys, data \in Payloads, legacyWrite \in BOOLEAN :
    LET r == save(files, encodeSteps, key, data, legacyWrite)
    IN /\ persistCalls < MaxPersistCalls
       /\ files' = r.files
       /\ persistCalls' = persistCalls + 1
       /\ reply' = [NoReply EXCEPT !.op = "save", !.key = key,
                                   !.payload = data, !.invoked = r.invoked,
                                   !.err = r.err, !.data = r.data,
                                   !.threw = r.threw,
                                   !.encodeErr = r.encodeErr]
       /\ UNCHANGED <<encodeSteps, decodeSteps, autoFlag, autoNames,
                      createListeners, changeListeners, collData, treeVars>>

\* persist.load(key, callback), up to its callback.
Load ==
  \E key \in FileKeys :
    LET r == load(files, decodeSteps, key)
    IN /\ persistCalls < MaxPersistCalls
       /\ persistCalls' = persistCalls + 1
       /\ reply' = [NoReply EXCEPT !.op = "load", !.key = key,
                                   !.invoked = r.invoked, !.err = r.err,
                                   !.data = r.data, !.threw = r.threw]
       /\ UNCHANGED <<encodeSteps, decodeSteps, files, autoFlag, autoNames,
                      createListeners, changeListeners, collData, treeVars>>

\* persist.drop(key, callback), up to its callback.
Drop ==
  \E key \in FileKeys :
    LET r == drop(files, key)
    IN /\ persistCalls < MaxPersistCalls
       /\ files' = r.files
       /\ persistCalls' = persistCalls + 1
       /\ reply' = [NoReply EXCEPT !.op = "drop", !.key = key,
                                   !.invoked = r.invoked, !.err = r.err]
       /\ UNCHANGED <<encodeSteps, decodeSteps, autoFlag, autoNames,
                      createListeners, changeListeners, collData, treeVars>>

\* A collection's data changes and the db emits 'change' for it.
DbChange ==
  \E name \in Collections, data \in CollPayloads, legacyWrite \in BOOLEAN :
    LET r == emitChange(files, encodeSteps, changeListeners, autoNames,
                        name, data, legacyWrite, 1)
    IN /\ persistCalls < MaxPersistCalls
       /\ collData' = [collData EXCEPT ![name] = data]
       /\ files' = r.files
       /\ persistCalls' = persistCalls + 1
       /\ reply' = [NoReply EXCEPT !.op = "change", !.key = name,
                                   !.saves = r.started, !.threw = r.threw]
       /\ UNCHANGED <<encodeSteps, decodeSteps, autoFlag, autoNames,
                      createListeners, changeListeners, treeVars>>

\* The db emits 'create' for a collection.
DbCreate ==
  \E name \in Collections :
    LET r == emitCreate(files, decodeSteps, createListeners, autoNames,
                        name, collData[name], 1)
    IN /\ persistCalls < MaxPersistCalls
       /\ collData' = [collData EXCEPT ![name] = r.data]
       /\ persistCalls' = persistCalls + 1
       /\ reply' = [NoReply EXCEPT !.op = "create", !.key = name,
                                   !.loads = r.started, !.threw = r.threw]
       /\ UNCHANGED <<encodeSteps, decodeSteps, files, autoFlag, autoNames,
                      createListeners, changeListeners, treeVars>>

\* Number of calls after which no collection or db is saved or loaded.
MaxDbCalls == 4

\* collection.save(callback) of a collection of the db.
CollectionSave ==
  \E name \in Collections, legacyWrite \in BOOLEAN :
    LET r == collectionSave(files, encodeSteps, name, collData[name],
                            legacyWrite)
    IN /\ persistCalls < MaxDbCalls
       /\ files' = r.files
       /\ persistCalls' = persistCalls + 1
       /\ reply' = [NoReply EXCEPT !.op = "collectionSave", !.key = name,
                                   !.invoked = r.invoked, !.err = r.err,
                                   !.threw = r.threw, !.pending = 1,
                                   !.complete = r.complete]
       /\ UNCHANGED <<encodeSteps, decodeSteps, autoFlag, autoNames,
                      createListeners, changeListeners, collData, treeVars>>

\* collection.load(callback) of a collection of the db.
CollectionLoad ==
  \E name \in Collections :
    LET r == collectionLoad(files, decodeSteps, name, collData[name])
    IN /\ persistCalls < MaxDbCalls
       /\ collData' = [collData EXCEPT ![name] = r.data]
       /\ persistCalls' = persistCalls + 1
       /\ reply' = [NoReply EXCEPT !.op = "collectionLoad", !.key = name,
                                   !.invoked = r.invoked, !.err = r.err,
                                   !.threw = r.threw, !.pending = 1,
                                   !.complete = r.complete]
       /\ UNCHANGED <<encodeSteps, decodeSteps, files, autoFlag, autoNames,
                      createListeners, changeListeners, treeVars>>

\* The collections a db holds, in the order their saves or loads complete:
\* none, one or several.
CollectionOrders ==
  {order \in UNION {[1..n -> Collections] : n \in 0..Cardinality(Collections)} :
     \A i, j \in 1..Len(order) : i # j => order[i] # order[j]}

\* db.save(callback).
DbSave ==
  \E order \in CollectionOrders, legacyWrite \in BOOLEAN :
    LET r == dbSave(encodeSteps, order, legacyWrite, 1,
                    DbRun(files, collData, Len(order), <<>>, FALSE))
    IN /\ persistCalls < MaxDbCalls
       /\ files' = r.files
       /\ persistCalls' = persistCalls + 1
       /\ reply' = [NoReply EXCEPT !.op = "dbSave", !.threw = r.threw,
                                   !.saves = Len(order),
                                   !.callbacks = r.callbacks,
                                   !.keyCount = r.keyCount]
       /\ UNCHANGED <<encodeSteps, decodeSteps, autoFlag, autoNames,
                      createListeners, changeListeners, collData, treeVars>>

\* db.load(callback).
DbLoad ==
  \E order \in CollectionOrders :
    LET r == dbLoad(decodeSteps, order, 1,
                    DbRun(files, collData, Len(order), <<>>, FALSE))
    IN /\ persistCalls < MaxDbCalls
       /\ collData' = r.data
       /\ persistCalls' = persistCalls + 1
       /\ reply' = [NoReply EXCEPT !.op = "dbLoad", !.threw = r.threw,
                                   !.loads = Len(order),
                                   !.callbacks = r.callbacks,
                                   !.keyCount = r.keyCount]
       /\ UNCHANGED <<encodeSteps, decodeSteps, files, autoFlag, autoNames,
                      createListeners, changeListeners, treeVars>>

\* The persistence layer of a db whose index tree is not touched: one index
\* specification is enough.
InitPersist == Init /\ keys = <<[path |-> "a", value |-> 1]>>

NextPersist ==
  AddStep \/ Auto \/ Save \/ Load \/ Drop \/ DbChange \/ DbCreate
SpecPersist == InitPersist /\ [][NextPersist]_vars

\* The collections and the db saved and loaded by their caller.
NextDb ==
  AddStep \/ Drop \/ CollectionSave \/ CollectionLoad \/ DbSave \/ DbLoad
SpecDb == InitPersist /\ [][NextDb]_vars

NextLookup == Insert \/ Lookup
SpecLookup == Init /\ [][NextLookup]_vars

NextStartsWith == Insert \/ StartsWith
SpecStartsWith == Init /\ [][NextStartsWith]_vars

NextRange == Insert \/ FindRange
SpecRange == Init /\ [][NextRange]_vars

NextMatch == Insert \/ Match
SpecMatch == Init /\ [][NextMatch]_vars

Spec == Init /\ [][Next]_vars

\* ------------------------------------------------------------------ properties
ToSet(seq) == {seq[i] : i \in 1..Len(seq)}
Count(seq, x) == Cardinality({i \in 1..Len(seq) : seq[i] = x})

\* The documents the tree yields, in order (undefined entries as NoData).
Dump == inOrder(nodes, Root)

\* The step is a call remove(d), made on a tree built by inserts alone that
\* holds d, and it returns true.
RemoveSucceeds ==
  /\ calls' = calls + 1
  /\ removals = 0
  /\ last'.op = "remove"
  /\ last'.ret = "true"
  /\ last'.doc \in ToSet(Dump)

\* C1: whenever remove(d) returns true on a tree built by inserts that holds
\* d, d is no longer returned by lookup(d) nor present in inOrder('data').
C1_RemovedDocumentIsGone ==
  [][RemoveSucceeds =>
       /\ last'.doc \notin ToSet(lookup(keys, nodes', Root, last'.doc))
       /\ last'.doc \notin ToSet(inOrder(nodes', Root))]_vars

\* C2: after remove(d) returns true and d is gone, every other previously
\* inserted document is still in inOrder('data') and still returned by
\* lookup on its own key, whichever splice case applied.
C2_RemovalLosesNothingElse ==
  [][(RemoveSucceeds /\ last'.doc \notin ToSet(inOrder(nodes', Root))) =>
       \A e \in ToSet(Dump) \ {last'.doc} :
         /\ e \in ToSet(inOrder(nodes', Root))
         /\ e \in ToSet(lookup(keys, nodes', Root, e))]_vars

\* The documents of S have pairwise distinct compound keys.
DistinctKeys(S) ==
  \A x, y \in S : x # y => compareFunc(keys, x, y) # 0

\* The orders in which the documents of S can be inserted.
Orders(S) ==
  {f \in [1..Cardinality(S) -> S] :
     \A i, j \in 1..Cardinality(S) : i # j => f[i] # f[j]}

RECURSIVE Build(_, _)
\* The heap after inserting the first i documents of order f into a new tree.
Build(f, i) ==
  IF i = 0 THEN [nodes |-> EmptyHeap, used |-> 1]
  ELSE LET b == Build(f, i - 1)
       IN insert(keys, b.nodes, b.used, Root, f[i])

\* C3: after inserts of documents with distinct compound keys, inOrder('data')
\* yields all of them in non-decreasing comparator order, and every
\* permutation of the insertion order yields the same sequence.
C3_Sortedness ==
  (removals = 0 /\ held # {} /\ DistinctKeys(held)) =>
    /\ ToSet(Dump) = held
    /\ Len(Dump) = Cardinality(held)
    /\ \A i, j \in 1..Len(Dump) :
         i < j => compareFunc(keys, Dump[i], Dump[j]) # 1
    /\ \A f \in Orders(held) :
         inOrder(Build(f, Cardinality(held)).nodes, Root) = Dump

\* A two-field index with a descending field holds three documents with
\* distinct keys in a tree whose root has both children.
C3_Witness ==
  /\ removals = 0
  /\ Len(keys) = 2
  /\ keys[2].value = -1
  /\ Cardinality(held) >= 3
  /\ DistinctKeys(held)
  /\ nodes[Root].left # Nil
  /\ nodes[Root].right # Nil

RECURSIVE Reachable(_, _)
\* The nodes of the tree below and including node n.
Reachable(ns, n) ==
  {n} \cup (IF ns[n].left # Nil THEN Reachable(ns, ns[n].left) ELSE {})
      \cup (IF ns[n].right # Nil THEN Reachable(ns, ns[n].right) ELSE {})

\* The documents held by the subtree at child (none for an absent child).
SubtreeDocs(ns, child) ==
  IF child = Nil THEN {} ELSE ToSet(inOrder(ns, child)) \ {NoData}

\* C4: in every state reachable by insert, remove and clear, every document
\* in a node's left subtree compares less than or equal to the node's
\* payload and every document in its right subtree strictly greater.
C4_OrderingInvariant ==
  \A n \in Reachable(nodes, Root) :
    nodes[n].data # NoData =>
      /\ \A x \in SubtreeDocs(nodes, nodes[n].left) :
           compareFunc(keys, nodes[n].data, x) \in {0, 1}
      /\ \A x \in SubtreeDocs(nodes, nodes[n].right) :
           compareFunc(keys, nodes[n].data, x) = -1

\* A removal has spliced a node and left a root with both children.
C4_Witness ==
  /\ last.op = "remove"
  /\ last.ret = "true"
  /\ Cardinality(ToSet(Dump) \ {NoData}) >= 3
  /\ nodes[Root].left # Nil
  /\ nodes[Root].right # Nil

\* C5: on a tree built by inserts, lookup(q) never returns a payload that
\* does not compare equal to q, and for an inserted document d whose compound
\* key is unique in the set, lookup(d) returns exactly [d].
C5_LookupExactness ==
  last.op = "lookup" =>
    /\ \A i \in 1..Len(last.arr) :
         compareFunc(keys, last.arr[i], last.doc) = 0
    /\ (/\ last.doc \in held
        /\ \A e \in held \ {last.doc} : compareFunc(keys, e, last.doc) # 0)
         => last.arr = <<last.doc>>

\* lookup(d) found d, whose key is unique among three or more documents,
\* below the root.
C5_Witness ==
  /\ last.op = "lookup"
  /\ Cardinality(held) >= 3
  /\ last.doc \in held
  /\ \A e \in held \ {last.doc} : compareFunc(keys, e, last.doc) # 0
  /\ nodes[Root].data # last.doc
  /\ last.arr = <<last.doc>>

RECURSIVE IsPrefix(_, _)
\* v is a literal prefix of the string t.
IsPrefix(v, t) ==
  IF v = <<>> THEN TRUE
  ELSE IF t = <<>> THEN FALSE
  ELSE Head(v) = Head(t) /\ IsPrefix(Tail(v), Tail(t))

\* The path is a field of the index spec.
Indexed(path) == \E i \in 1..Len(keys) : keys[i].path = path

\* C7: on a tree of documents that all have a string at the path, under any
\* index spec that has the path in any position and direction,
\* startsWith(path, v) returns exactly the documents whose value at the path
\* has v as a literal prefix.
C7_PrefixCorrectness ==
  (/\ last.op = "startsWith"
   /\ Indexed(last.path)
   /\ held # {}
   /\ \A d \in held : Get(d, last.path).kind = "str") =>
    /\ last.ret = "array"
    /\ \A d \in Docs :
         Count(last.arr, d) =
           IF d \in held /\ IsPrefix(last.val, Get(d, last.path).s) THEN 1 ELSE 0

\* v lies within the inclusive bounds, as numbers.
Within(v, from, to) == v.kind = "num" /\ from <= v.n /\ v.n <= to

\* C8: findRange('data', path, from, to) returns exactly the documents of
\* inOrder('data') whose value at the path satisfies from <= v <= to, in the
\* same order.
C8_RangeCorrectness ==
  last.op = "findRange" =>
    last.arr = SelectSeq(Dump,
                 LAMBDA d : Within(Get(d, last.path), last.from, last.to))

\* A range query returned documents at both of its ends and left out others.
C8_Witness ==
  /\ last.op = "findRange"
  /\ last.from < last.to
  /\ \E i \in 1..Len(last.arr) : Get(last.arr[i], last.path).n = last.from
  /\ \E i \in 1..Len(last.arr) : Get(last.arr[i], last.path).n = last.to
  /\ Len(last.arr) < Cardinality(held)
  /\ nodes[Root].left # Nil
  /\ nodes[Root].right # Nil

RECURSIVE CommonPrefix(_, _)
\* The longest common positional prefix of two field lists.
CommonPrefix(x, y) ==
  IF x = <<>> \/ y = <<>> THEN <<>>
  ELSE IF Head(x) # Head(y) THEN <<>>
  ELSE <<Head(x)>> \o CommonPrefix(Tail(x), Tail(y))

\* The field list of a query: its keys without the operator keys.
FieldList(query) == SelectSeq(query, LAMBDA k : k # OperatorKey)

\* C9: match(query) scores the length of the longest common positional
\* prefix of the query's and the index's field lists, reports that prefix as
\* matchedKeys and the full query field count as totalKeyCount.
C9_ScorerCountsLeadingPrefix ==
  last.op = "match" =>
    LET prefix == CommonPrefix(FieldList(last.query), indexPaths(keys))
    IN /\ last.score = Len(prefix)
       /\ last.matchedKeys = prefix
       /\ last.totalKeyCount = Len(FieldList(last.query))

\* C10: in every state reachable by insert, remove and clear, inOrder('data')
\* holds each document inserted and not yet removed exactly once, and
\* nothing else (no other document, no undefined entry).
C10_InOrderIsCanonicalDump ==
  \A d \in Docs \cup {NoData} :
    Count(Dump, d) = IF d \in held THEN 1 ELSE 0

\* C11: remove returns a boolean in every reachable state, also on a tree
\* holding no payload and when it descends into a cleared node; it never
\* raises an error.
C11_RemoveNeverThrows ==
  last.op = "remove" => last.ret \in {"true", "false"}

\* C12: on a tree that holds a document without a value at the path,
\* startsWith completes and returns the documents that have the prefix.
C12_StartsWithToleratesMissingValue ==
  (/\ last.op = "startsWith"
   /\ keys[1].path = last.path
   /\ keys[1].value = 1
   /\ \E d \in held : Get(d, last.path).kind = "undef") =>
    /\ last.ret = "array"
    /\ \A d \in Docs :
         Count(last.arr, d) =
           IF /\ d \in held
              /\ Get(d, last.path).kind = "str"
              /\ IsPrefix(last.val, Get(d, last.path).s)
           THEN 1 ELSE 0

\* C15: in every state reachable by insert and remove, the cached hash of
\* every populated node of the tree equals hashFunc of the node's payload.
C15_HashCoherence ==
  \A n \in Reachable(nodes, Root) :
    nodes[n].data # NoData => nodes[n].hash = hashFunc(keys, nodes[n].data)

\* The parents of node c: the (node, side) pairs of reachable nodes that
\* link c as a child.
Parents(ns, c) ==
  {p \in Reachable(ns, Root) \X {"left", "right"} :
     IF p[2] = "left" THEN ns[p[1]].left = c ELSE ns[p[1]].right = c}

\* C16: the nodes reachable from the root form a tree: the root is nobody's
\* child (no cycle through it), every other reachable node is the child of
\* exactly one node on exactly one side.
C16_ExclusiveOwnership ==
  /\ Parents(nodes, Root) = {}
  /\ \A c \in Reachable(nodes, Root) \ {Root} :
       Cardinality(Parents(nodes, c)) = 1

\* A removal has spliced a node and the tree still has a root with both
\* children among at least three linked nodes.
C16_Witness ==
  /\ last.op = "remove"
  /\ last.ret = "true"
  /\ nodes[Root].left # Nil
  /\ nodes[Root].right # Nil
  /\ removals > 0
  /\ Cardinality(Reachable(nodes, Root)) >= 3

\* C20: a remove that returns false changes nothing: structure, payloads
\* and cached hashes of all nodes are identical before and after.
C20_FailedRemovalIsNoOp ==
  [][(last'.op = "remove" /\ last'.ret = "false" /\ calls' = calls + 1)
       => nodes' = nodes]_vars

\* A remove of a held document has returned false on a tree with several
\* nodes: the document shares its key with a node's payload and the
\* comparator gave 0.
C20_Witness ==
  /\ last.op = "remove"
  /\ last.ret = "false"
  /\ last.doc \in held
  /\ Cardinality(Reachable(nodes, Root)) >= 2

\* The first key (in index order) on which documents x and y have different
\* values, 0 when they agree on every key.
FirstDiffering(ks, x, y) ==
  LET differing == {i \in 1..Len(ks) : Get(x, ks[i].path) # Get(y, ks[i].path)}
  IN IF differing = {} THEN 0
     ELSE CHOOSE i \in differing : \A j \in differing : i <= j

\* The directional comparison of two different values of one field: the
\* undefined one is lower whatever the direction, two defined values take
\* their natural order, negated when the direction is descending.
Directional(direction, vx, vy) ==
  IF vx.kind = "undef" THEN -1
  ELSE IF vy.kind = "undef" THEN 1
  ELSE direction * sortAsc(vx, vy)

\* C14: the comparator returns -1, 0 or 1; it returns 0 exactly when the
\* two documents agree on every key field, and otherwise the directional
\* comparison of the first key field on which they differ, where a value
\* missing in exactly one document makes that document the lower one under
\* ascending and descending direction alike.
C14_ComparatorIsLexicographic ==
  last.op = "compare" =>
    LET i == FirstDiffering(keys, last.doc, last.other)
    IN /\ last.result \in {-1, 0, 1}
       /\ (last.result = 0) <=> (i = 0)
       /\ i # 0 => last.result = Directional(keys[i].value,
                                             Get(last.doc, keys[i].path),
                                             Get(last.other, keys[i].path))

\* The comparator has decided on the second key, a descending one, where
\* only the first document lacks the value, after an equal first key.
C14_Witness ==
  /\ last.op = "compare"
  /\ Len(keys) = 2
  /\ FirstDiffering(keys, last.doc, last.other) = 2
  /\ keys[2].value = -1
  /\ Get(last.doc, keys[2].path).kind = "undef"
  /\ last.result = -1

RECURSIVE InsertRun(_, _, _, _, _)
\* Single inserts of the first k elements of seq, one call after the other,
\* starting from heap ns: the heap reached and what each call returned.
InsertRun(ks, ns, u, seq, k) ==
  IF k = 0 THEN [nodes |-> ns, used |-> u, rets |-> <<>>]
  ELSE LET p == InsertRun(ks, ns, u, seq, k - 1)
           r == insert(ks, p.nodes, p.used, Root, seq[k])
       IN [nodes |-> r.nodes, used |-> r.used, rets |-> Append(p.rets, r.ret)]

RECURSIVE RemoveRun(_, _, _, _)
\* Single removes of the first k elements of seq, one call after the other;
\* the caller makes no further call once one has raised an error.
RemoveRun(ks, ns, seq, k) ==
  IF k = 0 THEN [nodes |-> ns, rets |-> <<>>]
  ELSE LET p == RemoveRun(ks, ns, seq, k - 1)
       IN IF p.rets # <<>> /\ p.rets[Len(p.rets)] = "throw" THEN p
          ELSE LET r == remove(ks, p.nodes, Root, seq[k])
               IN [nodes |-> r.nodes, rets |-> Append(p.rets, r.ret)]

RECURSIVE Picked(_, _, _)
\* The elements of seq at the positions in idx from position k on, in order.
Picked(seq, idx, k) ==
  IF k > Len(seq) THEN <<>>
  ELSE IF k \in idx THEN <<seq[k]>> \o Picked(seq, idx, k + 1)
  ELSE Picked(seq, idx, k + 1)

\* C13: a batch call equals the element-wise single calls.  insert(array)
\* leaves the heap the single inserts in array order leave, and returns as
\* inserted the elements whose single insert returned true and as failed
\* the others, both in array order.  remove(array) leaves the heap the
\* single removes leave and returns, in order, the elements whose single
\* remove returned true; it raises an error exactly when one of the single
\* removes does.
C13_BatchEqualsSingles ==
  [][
     /\ last'.op = "insertBatch" =>
          LET data == last'.batch
              run == InsertRun(keys, nodes, used, data, Len(data))
          IN /\ nodes' = run.nodes
             /\ last'.inserted =
                  Picked(data, {k \in 1..Len(data) : run.rets[k]}, 1)
             /\ last'.failed =
                  Picked(data, {k \in 1..Len(data) : ~run.rets[k]}, 1)
     /\ last'.op = "removeBatch" =>
          LET removedFrom == last'.batch
              singles == RemoveRun(keys, nodes, removedFrom, Len(removedFrom))
              threw == \E k \in 1..Len(singles.rets) : singles.rets[k] = "throw"
          IN /\ nodes' = singles.nodes
             /\ (last'.ret = "throw") <=> threw
             /\ ~threw =>
                  /\ last'.ret = "array"
                  /\ last'.arr =
                       Picked(removedFrom,
                              {k \in 1..Len(removedFrom) :
                                 singles.rets[k] = "true"}, 1)
  ]_vars

\* A remove(array) of two documents has returned only the second one: the
\* single remove of the first returned false.
C13_Witness ==
  /\ last.op = "removeBatch"
  /\ last.ret = "array"
  /\ Len(last.batch) = 2
  /\ last.arr = <<last.batch[2]>>
  /\ last.batch[1] # last.batch[2]

\* C17: with only the default encode and decode step, a save(key, x) of a
\* string or object x whose callback got no error, followed by load(key),
\* delivers x to the load callback, with no error.
C17_PersistenceRoundTrip ==
  [][(/\ encodeSteps = <<"default">>
      /\ decodeSteps = <<"default">>
      /\ reply.op = "save"
      /\ reply.payload.kind \in {"str", "obj"}
      /\ reply.invoked = 1
      /\ reply.err = "false"
      /\ reply'.op = "load"
      /\ reply'.key = reply.key)
       => /\ reply'.invoked = 1
          /\ reply'.err = "false"
          /\ reply'.data = reply.payload]_vars

\* C18: a save during which an encode step passed an err other than false
\* writes nothing, and its callback is invoked once, with that err.
C18_EncodeFailureIsReported ==
  [][(reply'.op = "save" /\ reply'.encodeErr # "false")
       => /\ files' = files
          /\ reply'.invoked = 1
          /\ reply'.err = reply'.encodeErr]_vars

\* C19: a 'change' or 'create' event starts exactly one automatic save or
\* load of the object while auto is on and the object is selected (however
\* often auto(true) was called), and none while auto is off.
C19_AutoStopsAndSavesOnce ==
  LET expected == IF autoFlag /\ selected(autoNames, reply.key) THEN 1 ELSE 0
  IN /\ reply.op = "change" => reply.saves = expected
     /\ reply.op = "create" => reply.loads = expected

RECURSIVE inOrderNodes(_, _)
\* The nodes of the subtree at n in the order inOrder visits them.
inOrderNodes(ns, n) ==
  (IF ns[n].left # Nil THEN inOrderNodes(ns, ns[n].left) ELSE <<>>)
    \o <<n>>
    \o (IF ns[n].right # Nil THEN inOrderNodes(ns, ns[n].right) ELSE <<>>)

RECURSIVE Keep(_, _)
\* The elements of seq that are in set S, in order.
Keep(seq, S) ==
  IF seq = <<>> THEN <<>>
  ELSE IF Head(seq) \in S THEN <<Head(seq)>> \o Keep(Tail(seq), S)
  ELSE Keep(Tail(seq), S)

\* The nodes of the tree that hold a payload.
Populated(ns) == {n \in Reachable(ns, Root) : ns[n].data # NoData}

C22_ChildrenShareConfiguration ==
  \A n \in Reachable(nodes, Root) :
    nodes[n].primaryKey = nodes[Root].primaryKey

\* C23: on a tree built by inserts only, remove(d) of a document d held by
\* the tree returns true.
C23_HeldDocumentIsRemovable ==
  [][(last'.op = "remove" /\ removals = 0 /\ last'.doc \in held)
       => last'.ret = "true"]_vars

\* The position of the first occurrence of x in seq (0 when absent).
IndexOf(seq, x) ==
  IF \E i \in 1..Len(seq) : seq[i] = x
    THEN CHOOSE i \in 1..Len(seq) : seq[i] = x /\ \A j \in 1..(i - 1) : seq[j] # x
    ELSE 0

\* The pairs of nodes (older, newer) that hold documents comparing equal:
\* on a tree built by inserts only the objects are constructed in insertion
\* order, the root holding the first document.
EqualKeyPairs ==
  {p \in Populated(nodes) \X Populated(nodes) :
     p[1] < p[2] /\ compareFunc(keys, nodes[p[1]].data, nodes[p[2]].data) = 0}

Reverse(seq) == [i \in 1..Len(seq) |-> seq[Len(seq) + 1 - i]]

\* C25: after any sequence of addStep calls, with any integer index, the
\* decode steps are the encode steps in reverse order: the decoder of
\* encodeSteps[i] is decodeSteps[n - 1 - i].
C25_PipelinesStayMirrored ==
  /\ Len(decodeSteps) = Len(encodeSteps)
  /\ decodeSteps = Reverse(encodeSteps)

\* C28: in file mode load(key, cb) of a key that has no file (never saved,
\* or saved and dropped) invokes cb once with err false and no payload and
\* leaves storage unchanged; a load that follows the drop of its key never
\* delivers a payload.
C28_LoadOfAbsentKeyIsNotAnError ==
  [][
    /\ (reply'.op = "load" /\ ~files[reply'.key].exists) =>
         /\ reply'.invoked = 1
         /\ ~reply'.threw
         /\ reply'.err = "false"
         /\ reply'.data = Undefined
         /\ files' = files
    /\ (reply.op = "drop" /\ reply'.op = "load" /\ reply'.key = reply.key) =>
         /\ reply'.invoked = 1
         /\ reply'.err = "false"
         /\ reply'.data = Undefined
  ]_vars

\* A load has answered for a key that was saved and then dropped.
C28_Witness ==
  /\ reply.op = "load"
  /\ reply.key \in DirectKeys
  /\ persistCalls = 3
  /\ ~files[reply.key].exists
  /\ reply.invoked = 1
  /\ reply.err = "false"

\* C26: a Collection.save or Collection.load call that marked the
\* operation pending and did not raise an error has marked it complete
\* exactly once when the caller's callback is invoked, whether the data
\* step failed, the meta data step failed or both succeeded.
C26_PendingIsAlwaysCleared ==
  (reply.op \in {"collectionSave", "collectionLoad"} /\ ~reply.threw) =>
    /\ reply.invoked = 1
    /\ reply.complete = reply.pending

\* C27: a Db.save or Db.load call in which no collection raised an error
\* invokes the callback exactly once: with false when every collection
\* completed without err, else with an err.
C27_DbCallbackExactlyOnce ==
  (reply.op \in {"dbSave", "dbLoad"} /\ ~reply.threw) =>
    /\ Len(reply.callbacks) = 1
    /\ reply.callbacks[1] = "false" <=> reply.keyCount = 0
====
